---- MODULE Spec2Model ----
(***************************************************************************)
(* Model of the device monitor of mediasmartserverd                        *)
(* (src/src/device_monitor.cpp, driven by main in                          *)
(* src/src/mediasmartserverd.cpp): the bay index resolver                  *)
(* getLedIndexForDevice_, the startup enumeration enumDevices_, the        *)
(* setup steps of Init and the pselect loop of Main, with the LED          *)
(* interface reduced to the log of its Set calls.                          *)
(***************************************************************************)
EXTENDS Integers, Sequences, FiniteSets, TLC

\* ------------------------------------------------------------------ bounds
MaxSysnum == 3     \* scsi hosts are host0 .. host<MaxSysnum>
MaxEnum == 3       \* devices returned by the startup scan
MaxLive == 2       \* live notifications received by the monitor
MaxSignals == 1    \* SIGINT/SIGTERM deliveries

\* ------------------------------------------------------- device topology
\* the decimal digits of n, as the kernel prints the host number in "host<n>"
RECURSIVE DigitsOf(_)
DigitsOf(n) == IF n < 10 THEN <<n>> ELSE DigitsOf(n \div 10) \o <<n % 10>>

SysNums == { DigitsOf(n) : n \in 0..MaxSysnum }

\* subsystem of the scsi_host's parent; "NULL" is the absent attribute
Subsystems == { "NULL", "pci", "usb" }

\* what getLedIndexForDevice_ reads of a udev_device: whether it has a
\* scsi_host ancestor, that host's sysnum (a digit string, or NULL), whether
\* the host has a parent and the parent's subsystem
NoHostDevice ==
    [scsi_host |-> FALSE, has_sysnum |-> FALSE, sysnum |-> <<>>,
     has_parent |-> FALSE, subsystem |-> "NULL"]

NoSysnumDevices ==
    { [scsi_host |-> TRUE, has_sysnum |-> FALSE, sysnum |-> <<>>,
       has_parent |-> TRUE, subsystem |-> b] : b \in { "pci", "usb" } }

NoParentDevices ==
    { [scsi_host |-> TRUE, has_sysnum |-> TRUE, sysnum |-> s,
       has_parent |-> FALSE, subsystem |-> "NULL"] : s \in SysNums }

ParentDevices ==
    { [scsi_host |-> TRUE, has_sysnum |-> TRUE, sysnum |-> s,
       has_parent |-> TRUE, subsystem |-> b] : s \in SysNums, b \in Subsystems }

Devices ==
    {NoHostDevice} \cup NoSysnumDevices \cup NoParentDevices \cup ParentDevices

\* a udev_device pointer: <<>> is the null pointer, <<d>> points to d
Null == <<>>
Ptr(d) == <<d>>
Deref(p) == p[1]

\* action strings of a notification; "NULL" is the absent action
Actions == { "NULL", "add", "ADD", "remove", "Remove", "change" }

Notifications == [ device : Devices, action : Actions ]

\* ----------------------------------------------------------- C library
\* atoi on a digit string
RECURSIVE atoi(_)
atoi(s) == IF s = <<>> THEN 0
           ELSE atoi(SubSeq(s, 1, Len(s) - 1)) * 10 + s[Len(s)]

abs(x) == IF x < 0 THEN -x ELSE x

\* lower-casing as strcasecmp applies it to both arguments
tolower(s) ==
    CASE s = "ADD" -> "add"
      [] s = "Remove" -> "remove"
      [] OTHER -> s

strcasecmp(a, b) == IF tolower(a) = tolower(b) THEN 0 ELSE 1

strcmp(a, b) == IF a = b THEN 0 ELSE 1

\* ------------------------------------------------------------- the LEDs
LED_BLUE == "LED_BLUE"

\* one call leds_->Set( color, idx, state )
SetCall(color, idx, state) == [color |-> color, idx |-> idx, state |-> state]

\* --------------------------------------------------------------- state
VARIABLES
    pc,               \* position of the main thread
    leds_,            \* DeviceMonitor::leds_ is set
    led_index_ofs_,   \* DeviceMonitor::led_index_ofs_
    ofs_writes,       \* assignments made to led_index_ofs_ since construction
    dev_enum,         \* result of the startup scan, in list order
    scsi_devices,     \* the ordered map built by enumDevices_
    calls,            \* the leds_->Set calls made so far, in order
    fd_ready,         \* the monitor socket has a notification to read
    nlive,            \* notifications received so far
    device,           \* the notification of this loop iteration, <<>> if none
    signalled,        \* signals delivered so far
    eintr,            \* a signal interrupted the pselect in progress
    err               \* what() of the exception that ended the process

vars == <<pc, leds_, led_index_ofs_, ofs_writes, dev_enum, scsi_devices, calls,
          fd_ready, nlive, device, signalled, eintr, err>>

Terminal == { "returned", "failed" }

\* exit status of main
ExitStatus == IF pc = "failed" THEN 1 ELSE 0

\* ------------------------------------------------------------ operations
\* variant: a host without a parent resolves to the candidate
getLedIndexForDevice_NoParentCandidate(dev, ofs) ==
    IF ~dev.scsi_host THEN 0
    ELSE IF ~dev.has_sysnum THEN 0
    ELSE LET led_idx == atoi(dev.sysnum) - ofs + 1 IN
         IF ~dev.has_parent THEN led_idx
         ELSE IF dev.subsystem = "NULL" THEN led_idx
         ELSE IF 0 = strcmp("pci", dev.subsystem) THEN led_idx
         ELSE -led_idx

\* variant: the offset is added instead of subtracted
getLedIndexForDevice_AddOfs(dev, ofs) ==
    IF ~dev.scsi_host THEN 0
    ELSE IF ~dev.has_sysnum THEN 0
    ELSE LET led_idx == atoi(dev.sysnum) + ofs + 1 IN
         IF ~dev.has_parent THEN 0
         ELSE IF dev.subsystem = "NULL" THEN led_idx
         ELSE IF 0 = strcmp("pci", dev.subsystem) THEN led_idx
         ELSE -led_idx

\* variant: the magnitude of a non-pci device is kept positive-signed
getLedIndexForDevice_AbsNegated(dev, ofs) ==
    IF ~dev.scsi_host THEN 0
    ELSE IF ~dev.has_sysnum THEN 0
    ELSE LET led_idx == atoi(dev.sysnum) - ofs + 1 IN
         IF ~dev.has_parent THEN 0
         ELSE IF dev.subsystem = "NULL" THEN led_idx
         ELSE IF 0 = strcmp("pci", dev.subsystem) THEN led_idx
         ELSE -abs(led_idx)

\* variant: the sysnum is not tested for NULL
getLedIndexForDevice_NoSysnumTest(dev, ofs) ==
    IF ~dev.scsi_host THEN 0
    ELSE LET led_idx == atoi(dev.sysnum) - ofs + 1 IN
         IF ~dev.has_parent THEN 0
         ELSE IF dev.subsystem = "NULL" THEN led_idx
         ELSE IF 0 = strcmp("pci", dev.subsystem) THEN led_idx
         ELSE -led_idx

\* variant: a parent without subsystem makes the device unresolvable
getLedIndexForDevice_NullSubsystemZero(dev, ofs) ==
    IF ~dev.scsi_host THEN 0
    ELSE IF ~dev.has_sysnum THEN 0
    ELSE LET led_idx == atoi(dev.sysnum) - ofs + 1 IN
         IF ~dev.has_parent THEN 0
         ELSE IF dev.subsystem = "NULL" THEN 0
         ELSE IF 0 = strcmp("pci", dev.subsystem) THEN led_idx
         ELSE -led_idx

\* DeviceMonitor::getLedIndexForDevice_, reading led_index_ofs_ = ofs
getLedIndexForDevice_(dev, ofs) ==
    IF ~dev.scsi_host THEN 0
    ELSE IF ~dev.has_sysnum THEN 0
    ELSE LET led_idx == atoi(dev.sysnum) - ofs + 1 IN
         IF ~dev.has_parent THEN 0
         ELSE IF dev.subsystem = "NULL" THEN led_idx
         ELSE IF 0 = strcmp("pci", dev.subsystem) THEN led_idx
         ELSE -led_idx

\* variant: the 1-based index is passed to Set unchanged
deviceChanged_OneBased(cs, ofs, dev, state, led_idx) ==
    LET idx == IF led_idx <= 0 THEN getLedIndexForDevice_(dev, ofs)
               ELSE led_idx IN
    IF idx <= 0 THEN cs
    ELSE IF leds_ THEN Append(cs, SetCall(LED_BLUE, idx, state))
    ELSE cs

\* DeviceMonitor::deviceChanged_: the Set calls cs extended by this call's
deviceChanged_(cs, ofs, dev, state, led_idx) ==
    LET idx == IF led_idx <= 0 THEN getLedIndexForDevice_(dev, ofs)
               ELSE led_idx IN
    IF idx <= 0 THEN cs
    ELSE IF leds_ THEN Append(cs, SetCall(LED_BLUE, idx - 1, state))
    ELSE cs

deviceAdded_(cs, ofs, dev) == deviceChanged_(cs, ofs, dev, TRUE, 0)

deviceRemove_(cs, ofs, dev) == deviceChanged_(cs, ofs, dev, FALSE, 0)

\* variant: m[key] = p, an existing key gets the new value
MapInsert_Overwrite(m, key, p) ==
    [k \in DOMAIN m \cup {key} |-> IF k = key THEN p ELSE m[k]]

\* std::map::insert: an existing key keeps its value
MapInsert(m, key, p) ==
    IF key \in DOMAIN m THEN m ELSE [k \in DOMAIN m \cup {key} |->
                                        IF k = key THEN p ELSE m[k]]

EmptyMap == [k \in {} |-> Null]

\* first loop of enumDevices_: the map built from entries i.. of the list
RECURSIVE CollectDevices(_, _, _, _)
CollectDevices(list, i, m, ofs) ==
    IF i > Len(list) THEN m
    ELSE IF list[i] = Null THEN CollectDevices(list, i + 1, m, ofs)
    ELSE LET led_idx == getLedIndexForDevice_(Deref(list[i]), ofs) IN
         IF 0 = led_idx THEN CollectDevices(list, i + 1, m, ofs)
         ELSE CollectDevices(list, i + 1,
                  MapInsert(m, abs(led_idx),
                            IF led_idx < 0 THEN Null ELSE list[i]), ofs)

MinKey(keys) == CHOOSE k \in keys : \A j \in keys : k <= j

\* variant: every hole moves the offset, also after the first valid device
RECURSIVE IterateDevices_AlwaysOfs(_, _, _, _, _, _)
IterateDevices_AlwaysOfs(m, keys, ofs, found_valid, cs, nw) ==
    IF keys = {} THEN [ofs |-> ofs, calls |-> cs, writes |-> nw]
    ELSE LET k == MinKey(keys) IN
         IF m[k] = Null
         THEN IterateDevices_AlwaysOfs(m, keys \ {k}, k, found_valid, cs,
                                       nw + 1)
         ELSE IterateDevices_AlwaysOfs(m, keys \ {k}, ofs, TRUE,
                             deviceChanged_(cs, ofs, Deref(m[k]), TRUE, k), nw)

\* variant: the map is visited from its highest key down
RECURSIVE IterateDevices_Descending(_, _, _, _, _, _)
IterateDevices_Descending(m, keys, ofs, found_valid, cs, nw) ==
    IF keys = {} THEN [ofs |-> ofs, calls |-> cs, writes |-> nw]
    ELSE LET k == CHOOSE j \in keys : \A i \in keys : i <= j IN
         IF m[k] = Null
         THEN IterateDevices_Descending(m, keys \ {k},
                             IF ~found_valid THEN k ELSE ofs, found_valid, cs,
                             IF ~found_valid THEN nw + 1 ELSE nw)
         ELSE IterateDevices_Descending(m, keys \ {k}, ofs, TRUE,
                             deviceChanged_(cs, ofs, Deref(m[k]), TRUE, k), nw)

\* second loop of enumDevices_ over the keys still to visit, in ascending
\* order: the final led_index_ofs_, the Set calls and the number nw of
\* assignments made to led_index_ofs_
RECURSIVE IterateDevices(_, _, _, _, _, _)
IterateDevices(m, keys, ofs, found_valid, cs, nw) ==
    IF keys = {} THEN [ofs |-> ofs, calls |-> cs, writes |-> nw]
    ELSE LET k == MinKey(keys) IN
         IF m[k] = Null
         THEN IterateDevices(m, keys \ {k},
                             IF ~found_valid THEN k ELSE ofs, found_valid, cs,
                             IF ~found_valid THEN nw + 1 ELSE nw)
         ELSE IterateDevices(m, keys \ {k}, ofs, TRUE,
                             deviceChanged_(cs, ofs, Deref(m[k]), TRUE, k), nw)

\* ------------------------------------------------------------------ Init
\* entries of the scan: null where udev_device_new_from_syspath fails
ScanEntries == { Null } \cup { Ptr(d) : d \in Devices }

ScanLists == UNION { [1..n -> ScanEntries] : n \in 0..MaxEnum }

Init ==
    /\ pc = "udev_new"
    /\ leds_ = FALSE
    /\ led_index_ofs_ = 0
    /\ ofs_writes = 0
    /\ dev_enum \in ScanLists
    /\ scsi_devices = EmptyMap
    /\ calls = <<>>
    /\ fd_ready = FALSE
    /\ nlive = 0
    /\ device = <<>>
    /\ signalled = 0
    /\ eintr = FALSE
    /\ err = ""

\* --------------------------------------------------------------- actions
\* Init: leds_ = leds; udev_new()
UdevNew ==
    /\ pc = "udev_new"
    /\ leds_' = TRUE
    /\ \E ok \in BOOLEAN :
          IF ok THEN pc' = "udev_monitor_new_from_netlink" /\ err' = err
          ELSE pc' = "failed" /\ err' = "udev_new"
    /\ UNCHANGED <<led_index_ofs_, ofs_writes, dev_enum, scsi_devices, calls, fd_ready,
                   nlive, device, signalled, eintr>>

\* variant: the exception names the previous operation
MonitorNew_WrongName ==
    /\ pc = "udev_monitor_new_from_netlink"
    /\ \E ok \in BOOLEAN :
          IF ok THEN pc' = "udev_monitor_filter_add_match_subsystem_devtype"
                     /\ err' = err
          ELSE pc' = "failed" /\ err' = "udev_new"
    /\ UNCHANGED <<leds_, led_index_ofs_, ofs_writes, dev_enum, scsi_devices,
                   calls, fd_ready, nlive, device, signalled, eintr>>

\* Init: udev_monitor_new_from_netlink()
MonitorNew ==
    /\ pc = "udev_monitor_new_from_netlink"
    /\ \E ok \in BOOLEAN :
          IF ok THEN pc' = "udev_monitor_filter_add_match_subsystem_devtype"
                     /\ err' = err
          ELSE pc' = "failed" /\ err' = "udev_monitor_new_from_netlink"
    /\ UNCHANGED <<leds_, led_index_ofs_, ofs_writes,
                   dev_enum, scsi_devices, calls,
                   fd_ready, nlive, device, signalled, eintr>>

\* variant: Init goes on to enable the monitor without enumerating
FilterAdd_SkipEnum ==
    /\ pc = "udev_monitor_filter_add_match_subsystem_devtype"
    /\ \E ok \in BOOLEAN :
          IF ok THEN pc' = "udev_monitor_enable_receiving" /\ err' = err
          ELSE pc' = "failed"
               /\ err' = "udev_monitor_filter_add_match_subsystem_devtype"
    /\ UNCHANGED <<leds_, led_index_ofs_, ofs_writes, dev_enum, scsi_devices,
                   calls, fd_ready, nlive, device, signalled, eintr>>

\* Init: udev_monitor_filter_add_match_subsystem_devtype()
FilterAdd ==
    /\ pc = "udev_monitor_filter_add_match_subsystem_devtype"
    /\ \E ok \in BOOLEAN :
          IF ok THEN pc' = "enumDevices_" /\ err' = err
          ELSE pc' = "failed"
               /\ err' = "udev_monitor_filter_add_match_subsystem_devtype"
    /\ UNCHANGED <<leds_, led_index_ofs_, ofs_writes,
                   dev_enum, scsi_devices, calls,
                   fd_ready, nlive, device, signalled, eintr>>

\* Init: enumDevices_()
enumDevices_ ==
    /\ pc = "enumDevices_"
    /\ LET m == CollectDevices(dev_enum, 1, EmptyMap, led_index_ofs_)
           r == IterateDevices(m, DOMAIN m, led_index_ofs_, FALSE, calls,
                               ofs_writes)
       IN /\ scsi_devices' = m
          /\ led_index_ofs_' = r.ofs
          /\ ofs_writes' = r.writes
          /\ calls' = r.calls
    /\ pc' = "udev_monitor_enable_receiving"
    /\ UNCHANGED <<leds_, dev_enum, fd_ready, nlive, device, signalled, eintr,
                   err>>

\* Init: back from enumDevices_ (the scan is released),
\* udev_monitor_enable_receiving()
EnableReceiving ==
    /\ pc = "udev_monitor_enable_receiving"
    /\ \E ok \in BOOLEAN :
          IF ok THEN pc' = "loop" /\ err' = err
          ELSE pc' = "failed" /\ err' = "udev_monitor_enable_receiving"
    /\ dev_enum' = <<>>
    /\ UNCHANGED <<leds_, led_index_ofs_, ofs_writes,
                   scsi_devices, calls,
                   fd_ready, nlive, device, signalled, eintr>>

MonitorEnabled == pc \in { "loop", "pselect", "dispatch" }

\* Main: top of the loop (the previous iteration's device is released), the
\* thread enters pselect
EnterPselect ==
    /\ pc = "loop"
    /\ pc' = "pselect"
    /\ device' = <<>>
    /\ eintr' = FALSE
    /\ UNCHANGED <<leds_, led_index_ofs_, ofs_writes,
                   dev_enum, scsi_devices, calls,
                   fd_ready, nlive, signalled, err>>

\* variant: the interrupted wait is retried
PselectSignalled_Retry ==
    /\ pc = "pselect"
    /\ eintr
    /\ pc' = "loop"
    /\ eintr' = FALSE
    /\ UNCHANGED <<leds_, led_index_ofs_, ofs_writes, dev_enum, scsi_devices,
                   calls, fd_ready, nlive, device, signalled, err>>

\* Main: pselect fails with EINTR, Main returns
PselectSignalled ==
    /\ pc = "pselect"
    /\ eintr
    /\ pc' = "returned"
    /\ eintr' = FALSE
    /\ UNCHANGED <<leds_, led_index_ofs_, ofs_writes,
                   dev_enum, scsi_devices, calls,
                   fd_ready, nlive, device, signalled, err>>

\* Main: pselect fails with another errno, Main throws
PselectFails ==
    /\ pc = "pselect"
    /\ pc' = "failed"
    /\ err' = "select"
    /\ eintr' = FALSE
    /\ UNCHANGED <<leds_, led_index_ofs_, ofs_writes,
                   dev_enum, scsi_devices, calls,
                   fd_ready, nlive, device, signalled>>

\* Main: pselect reports the monitor readable, udev_monitor_receive_device
PselectReadable ==
    /\ pc = "pselect"
    /\ fd_ready
    /\ \E n \in Notifications : device' = <<n>>
    /\ fd_ready' = FALSE
    /\ nlive' = nlive + 1
    /\ eintr' = FALSE
    /\ pc' = "dispatch"
    /\ UNCHANGED <<leds_, led_index_ofs_, ofs_writes,
                   dev_enum, scsi_devices, calls,
                   signalled, err>>

\* variant: every action that is not a remove is handled as an add
Dispatch_ElseAdded ==
    /\ pc = "dispatch"
    /\ LET dev == device[1].device
           str == device[1].action IN
       calls' = IF str = "NULL" THEN calls
                ELSE IF 0 = strcasecmp(str, "remove")
                     THEN deviceRemove_(calls, led_index_ofs_, dev)
                ELSE deviceAdded_(calls, led_index_ofs_, dev)
    /\ pc' = "loop"
    /\ UNCHANGED <<leds_, led_index_ofs_, ofs_writes, dev_enum, scsi_devices,
                   fd_ready, nlive, device, signalled, eintr, err>>

\* variant: a live add of a device that resolves negative moves the offset,
\* as a hole of the enumeration does
Dispatch_Recalibrate ==
    /\ pc = "dispatch"
    /\ LET dev == device[1].device
           str == device[1].action
           idx == getLedIndexForDevice_(dev, led_index_ofs_) IN
       /\ calls' = IF str = "NULL" THEN calls
                   ELSE IF 0 = strcasecmp(str, "add")
                        THEN deviceAdded_(calls, led_index_ofs_, dev)
                   ELSE IF 0 = strcasecmp(str, "remove")
                        THEN deviceRemove_(calls, led_index_ofs_, dev)
                   ELSE calls
       /\ IF str # "NULL" /\ 0 = strcasecmp(str, "add") /\ idx < 0
          THEN led_index_ofs_' = abs(idx) /\ ofs_writes' = ofs_writes
          ELSE UNCHANGED <<led_index_ofs_, ofs_writes>>
    /\ pc' = "loop"
    /\ UNCHANGED <<leds_, dev_enum, scsi_devices, fd_ready, nlive, device,
                   signalled, eintr, err>>

\* Main: the action of the received device selects the handler
Dispatch ==
    /\ pc = "dispatch"
    /\ LET dev == device[1].device
           str == device[1].action IN
       calls' = IF str = "NULL" THEN calls
                ELSE IF 0 = strcasecmp(str, "add")
                     THEN deviceAdded_(calls, led_index_ofs_, dev)
                ELSE IF 0 = strcasecmp(str, "remove")
                     THEN deviceRemove_(calls, led_index_ofs_, dev)
                ELSE calls
    /\ pc' = "loop"
    /\ UNCHANGED <<leds_, led_index_ofs_, ofs_writes,
                   dev_enum, scsi_devices, fd_ready,
                   nlive, device, signalled, eintr, err>>

\* the kernel queues a notification on the enabled monitor socket
NotificationArrives ==
    /\ MonitorEnabled
    /\ ~fd_ready
    /\ nlive < MaxLive
    /\ fd_ready' = TRUE
    /\ UNCHANGED <<pc, leds_, led_index_ofs_, ofs_writes,
                   dev_enum, scsi_devices, calls,
                   nlive, device, signalled, eintr, err>>

\* SIGINT or SIGTERM is delivered: sig_handler runs and does nothing; a
\* pselect in progress is interrupted
sig_handler ==
    /\ pc \notin Terminal
    /\ signalled < MaxSignals
    /\ signalled' = signalled + 1
    /\ eintr' = IF pc = "pselect" THEN TRUE ELSE eintr
    /\ UNCHANGED <<pc, leds_, led_index_ofs_, ofs_writes,
                   dev_enum, scsi_devices, calls,
                   fd_ready, nlive, device, err>>

Next ==
    \/ UdevNew
    \/ MonitorNew
    \/ FilterAdd
    \/ enumDevices_
    \/ EnableReceiving
    \/ EnterPselect
    \/ PselectSignalled
    \/ PselectFails
    \/ PselectReadable
    \/ Dispatch
    \/ NotificationArrives
    \/ sig_handler

Spec == Init /\ [][Next]_vars

TypeOK ==
    /\ pc \in { "udev_new", "udev_monitor_new_from_netlink",
                "udev_monitor_filter_add_match_subsystem_devtype",
                "enumDevices_", "udev_monitor_enable_receiving",
                "loop", "pselect", "dispatch", "returned", "failed" }
    /\ leds_ \in BOOLEAN
    /\ led_index_ofs_ \in 0..(MaxSysnum + 1)
    /\ ofs_writes \in 0..(MaxSysnum + 1)
    /\ Len(calls) <= MaxEnum + MaxLive
    /\ nlive \in 0..MaxLive
    /\ signalled \in 0..MaxSignals

\* ---------------------------------------------------------- properties
\* enumDevices_ has run
Enumerated ==
    \/ pc \in { "udev_monitor_enable_receiving", "loop", "pselect",
                "dispatch", "returned" }
    \/ pc = "failed" /\ err \in { "udev_monitor_enable_receiving", "select" }

\* the step is the enumeration / the dispatch of the received notification
EnumStep == pc = "enumDevices_" /\ pc' = "udev_monitor_enable_receiving"
DispatchStep == pc = "dispatch" /\ pc' = "loop"

Holes(m) == { k \in DOMAIN m : m[k] = Null }
Reals(m) == { k \in DOMAIN m : m[k] # Null }
MaxKey(keys) == CHOOSE k \in keys : \A j \in keys : j <= k

IsAdd(a) == a \in { "add", "ADD" }
IsRemove(a) == a \in { "remove", "Remove" }

Slot(d) == atoi(d.sysnum)
Candidate(d) == Slot(d) - led_index_ofs_ + 1

PciDevices == { d \in ParentDevices : d.subsystem = "pci" }
NonInternalDevices == { d \in ParentDevices : d.subsystem \notin { "NULL", "pci" } }
NullSubsystemDevices == { d \in ParentDevices : d.subsystem = "NULL" }
UnresolvableDevices == { NoHostDevice } \cup NoSysnumDevices

\* the notification handled in this loop iteration
Handled(D) == device # <<>> /\ device[1].device \in D
HandledAddRemove(D) ==
    Handled(D) /\ (IsAdd(device[1].action) \/ IsRemove(device[1].action))

\* C1: right after enumeration of a snapshot with holes at keys 1..k and real
\* devices at keys k+1..n, the offset is k and the Set calls made are
\* Set(blue, 0, true) .. Set(blue, n-k-1, true) in this order
C1_Rebased ==
    pc = "udev_monitor_enable_receiving" =>
        \A k \in 0..(MaxSysnum + 1) : \A n \in (k + 1)..(MaxSysnum + 1) :
            (Holes(scsi_devices) = 1..k /\ Reals(scsi_devices) = (k + 1)..n)
            => /\ led_index_ofs_ = k
               /\ calls = [i \in 1..(n - k) |-> SetCall(LED_BLUE, i - 1, TRUE)]

\* C2: handling a device whose host's parent has a subsystem other than pci
\* makes no Set call: not when it is dispatched live, and not when the
\* startup scan holds only such devices
C2_NonInternalExcluded ==
    [][ /\ (DispatchStep /\ Handled(NonInternalDevices)) => calls' = calls
        /\ (EnumStep /\ \A i \in 1..Len(dev_enum) :
                            /\ dev_enum[i] # Null
                            /\ Deref(dev_enum[i]) \in NonInternalDevices)
               => calls' = calls ]_vars

\* C3: after a signal has been delivered the thread is never blocked in
\* pselect with nothing to end the wait: the wait is interrupted (Main
\* returns) or a notification is ready, no further signal being needed
C3_SignalNotLost ==
    (signalled > 0 /\ pc = "pselect") => (eintr \/ fd_ready)

C5_LiveForward ==
    [][ (DispatchStep /\ HandledAddRemove(Devices)) =>
           LET N == getLedIndexForDevice_(device[1].device, led_index_ofs_) IN
           IF N > 0
           THEN calls' = Append(calls, SetCall(LED_BLUE, N - 1,
                                               IsAdd(device[1].action)))
           ELSE calls' = calls ]_vars

C5_Witness ==
    /\ pc = "loop"
    /\ HandledAddRemove(Devices)
    /\ IsRemove(device[1].action)
    /\ led_index_ofs_ > 0
    /\ calls # <<>>
    /\ calls[Len(calls)] =
          SetCall(LED_BLUE, Candidate(device[1].device) - 1, FALSE)

\* C6 as stated: after enumeration every pci device resolves to
\* slot - offset + 1 and this value is strictly positive
C6_PciPositive ==
    Enumerated =>
        \A d \in PciDevices :
            /\ getLedIndexForDevice_(d, led_index_ofs_) = Candidate(d)
            /\ getLedIndexForDevice_(d, led_index_ofs_) > 0

\* C6 amended: every pci device resolves to slot - offset + 1, which is
\* strictly positive exactly when the slot is not below the offset
C6_PciCandidate ==
    Enumerated =>
        \A d \in PciDevices :
            /\ getLedIndexForDevice_(d, led_index_ofs_)
                  = Slot(d) - led_index_ofs_ + 1
            /\ getLedIndexForDevice_(d, led_index_ofs_) > 0
                  <=> Slot(d) >= led_index_ofs_

C6_Witness ==
    /\ pc = "loop"
    /\ Handled(PciDevices)
    /\ led_index_ofs_ > 0
    /\ Slot(device[1].device) >= led_index_ofs_

C8_OffsetIsLastLeadingHole ==
    Enumerated =>
        LET leading == { k \in Holes(scsi_devices) :
                            \A r \in Reals(scsi_devices) : k < r } IN
        /\ led_index_ofs_ = IF leading = {} THEN 0 ELSE MaxKey(leading)
        /\ pc = "udev_monitor_enable_receiving" =>
              \A i \in 1..Len(calls) :
                  calls[i].idx + 1 \notin Holes(scsi_devices)

C8_Witness ==
    /\ pc = "udev_monitor_enable_receiving"
    /\ \E h1, h2 \in Holes(scsi_devices) : \E r \in Reals(scsi_devices) :
          h1 < r /\ r < h2
    /\ calls # <<>>

\* C9: a device without scsi_host ancestor or without sysnum resolves to 0
\* before and after every step; every record of the enumeration's map comes
\* from a scanned device that has both, a scan of only such devices leaves
\* map, offset and calls as they were, and dispatching one makes no Set call
C9_Unresolvable ==
    [][ /\ \A d \in UnresolvableDevices :
              /\ getLedIndexForDevice_(d, led_index_ofs_) = 0
              /\ getLedIndexForDevice_(d, led_index_ofs_') = 0
        /\ EnumStep =>
              /\ \A k \in DOMAIN scsi_devices' :
                    \E i \in 1..Len(dev_enum) :
                       /\ dev_enum[i] # Null
                       /\ Deref(dev_enum[i]) \notin UnresolvableDevices
                       /\ Slot(Deref(dev_enum[i])) + 1 = k
              /\ (\A i \in 1..Len(dev_enum) :
                     /\ dev_enum[i] # Null
                     /\ Deref(dev_enum[i]) \in UnresolvableDevices)
                 => /\ scsi_devices' = EmptyMap
                    /\ led_index_ofs_' = led_index_ofs_
                    /\ calls' = calls
        /\ (DispatchStep /\ Handled(UnresolvableDevices)) => calls' = calls
      ]_vars

C9_Witness ==
    /\ pc = "loop"
    /\ HandledAddRemove(UnresolvableDevices)
    /\ led_index_ofs_ > 0
    /\ Reals(scsi_devices) # {}

\* C10: a device whose host has a parent without subsystem resolves to the
\* candidate slot - offset + 1 with its sign unchanged, under every offset
C10_NullSubsystemCandidate ==
    \A d \in NullSubsystemDevices :
        getLedIndexForDevice_(d, led_index_ofs_)
           = Slot(d) - led_index_ofs_ + 1

C10_Witness ==
    /\ pc = "loop"
    /\ Handled(NullSubsystemDevices)
    /\ led_index_ofs_ > 0
    /\ Candidate(device[1].device) < 0

\* C11: a step that takes Main from pselect to its return needs the wait to
\* be interrupted, sets no error and handles nothing; a step from pselect to
\* the failure carries the error "select"; an interrupted wait with nothing
\* to read ends in one of these two ways, never back in the loop; and after
\* either nothing happens any more
C11_WaitFailure ==
    [][ /\ (pc = "pselect" /\ pc' = "returned")
              => eintr /\ err' = "" /\ calls' = calls /\ nlive' = nlive
        /\ (pc = "pselect" /\ pc' = "failed")
              => err' = "select" /\ calls' = calls /\ nlive' = nlive
        /\ (pc = "pselect" /\ eintr /\ ~fd_ready /\ pc' # pc)
              => pc' \in { "returned", "failed" }
        /\ pc \in Terminal => UNCHANGED vars ]_vars

C11_Witness ==
    /\ pc = "returned"
    /\ err = ""
    /\ signalled > 0
    /\ nlive > 0

\* C12: handling a notification whose action is absent or is neither add nor
\* remove (in any letter case) makes no Set call, leaves the offset alone
\* and takes Main back to the top of its loop
C12_OtherActionIgnored ==
    [][ (/\ pc = "dispatch"
         /\ pc' # pc
         /\ ~IsAdd(device[1].action)
         /\ ~IsRemove(device[1].action))
        => /\ calls' = calls
           /\ led_index_ofs_' = led_index_ofs_
           /\ pc' = "loop" ]_vars

C12_Witness ==
    /\ pc = "loop"
    /\ Handled(Devices)
    /\ device[1].action = "change"
    /\ led_index_ofs_ > 0
    /\ getLedIndexForDevice_(device[1].device, led_index_ofs_) > 0

\* C13: only the enumeration step writes the offset: every other step leaves
\* it and the count of its assignments alone, so once enumeration is over it
\* keeps its value
C13_OffsetFrozen ==
    [][ /\ ~EnumStep => /\ led_index_ofs_' = led_index_ofs_
                        /\ ofs_writes' = ofs_writes
        /\ Enumerated => led_index_ofs_' = led_index_ofs_ ]_vars

C13_Witness ==
    /\ pc = "returned"
    /\ nlive = MaxLive
    /\ led_index_ofs_ > 0
    /\ Len(calls) > Cardinality(Reals(scsi_devices))

\* the setup steps of Init, named as the operation each performs
SetupSteps ==
    { "udev_new", "udev_monitor_new_from_netlink",
      "udev_monitor_filter_add_match_subsystem_devtype",
      "udev_monitor_enable_receiving" }

\* C14: a setup step that fails ends the process with exit status 1 and the
\* error naming that step's operation, before any notification was received
\* and without running enumeration or making a Set call in that step; after
\* the failure no step runs
C14_SetupFailure ==
    [][ /\ (pc \in SetupSteps /\ pc' = "failed")
              => /\ err' = pc
                 /\ ExitStatus' = 1
                 /\ nlive' = 0 /\ device' = <<>>
                 /\ calls' = calls
                 /\ scsi_devices' = scsi_devices
                 /\ led_index_ofs_' = led_index_ofs_
        /\ pc = "failed" => UNCHANGED vars ]_vars

C14_Witness ==
    /\ pc = "failed"
    /\ err = "udev_monitor_enable_receiving"
    /\ ExitStatus = 1
    /\ calls # <<>>
    /\ nlive = 0

\* C16: a live add/remove of a device that startup enumeration recorded as
\* real under key k, and so announced with Set(blue, k-1, true), sets the
\* same slot k-1 (off for remove, on for add)
C16_ConsistentNumbering ==
    [][ (/\ DispatchStep
         /\ HandledAddRemove(Devices)
         /\ \E k \in Reals(scsi_devices) :
               Deref(scsi_devices[k]) = device[1].device)
        => LET k == CHOOSE j \in Reals(scsi_devices) :
                       Deref(scsi_devices[j]) = device[1].device IN
           calls' = Append(calls, SetCall(LED_BLUE, k - 1,
                                          IsAdd(device[1].action))) ]_vars

\* entries of the scan that resolve, under the offset 0 of enumeration time,
\* to the key k, and the record entry i asks to store
Writers(k) ==
    { i \in 1..Len(dev_enum) :
         /\ dev_enum[i] # Null
         /\ abs(getLedIndexForDevice_(Deref(dev_enum[i]), 0)) = k }
WrittenRecord(i) ==
    IF getLedIndexForDevice_(Deref(dev_enum[i]), 0) < 0 THEN Null
    ELSE dev_enum[i]
HasEvent(k) == \E c \in 1..Len(calls) : calls[c].idx = k - 1

\* C17 as stated: right after enumeration every key of the map holds the
\* record of the LAST scanned device that resolves to it, and the key has
\* an "added" call exactly if that record is a real device
C17_LastWriteWins ==
    pc = "udev_monitor_enable_receiving" =>
        \A k \in DOMAIN scsi_devices :
            /\ Writers(k) # {}
            /\ scsi_devices[k] = WrittenRecord(MaxKey(Writers(k)))
            /\ HasEvent(k) <=> WrittenRecord(MaxKey(Writers(k))) # Null

\* C17 amended: every key holds the record of the FIRST scanned device that
\* resolves to it, and the key has an "added" call exactly if that record
\* is a real device
C17_FirstWriteWins ==
    pc = "udev_monitor_enable_receiving" =>
        \A k \in DOMAIN scsi_devices :
            /\ Writers(k) # {}
            /\ scsi_devices[k] = WrittenRecord(MinKey(Writers(k)))
            /\ HasEvent(k) <=> WrittenRecord(MinKey(Writers(k))) # Null

C17_Witness ==
    /\ pc = "udev_monitor_enable_receiving"
    /\ \E k \in DOMAIN scsi_devices :
          /\ Cardinality(Writers(k)) >= 2
          /\ WrittenRecord(MinKey(Writers(k))) # Null
          /\ WrittenRecord(MaxKey(Writers(k))) = Null
          /\ HasEvent(k)

\* C18: Init reaches the enabling of the monitor only by the enumeration
\* step, which is entered once, with no Set call made and nothing received
\* or pending before it; Main's loop is entered only from the enabling; and
\* every step that queues, receives or dispatches a notification happens
\* after enumeration and leaves the offset as enumeration set it
C18_EnumerationFirst ==
    [][ /\ (pc' = "udev_monitor_enable_receiving" /\ pc' # pc) => EnumStep
        /\ (pc' = "enumDevices_" /\ pc' # pc)
              => /\ pc = "udev_monitor_filter_add_match_subsystem_devtype"
                 /\ scsi_devices = EmptyMap
                 /\ ofs_writes = 0
        /\ (pc' = "loop" /\ pc \notin { "loop", "dispatch" })
              => pc = "udev_monitor_enable_receiving"
        /\ EnumStep => /\ calls = <<>>
                       /\ nlive = 0
                       /\ ~fd_ready
                       /\ device = <<>>
        /\ (nlive' # nlive \/ fd_ready' # fd_ready \/ DispatchStep)
              => /\ Enumerated
                 /\ pc # "udev_monitor_enable_receiving"
                 /\ led_index_ofs_' = led_index_ofs_ ]_vars

C18_Witness ==
    /\ pc = "loop"
    /\ HandledAddRemove(Devices)
    /\ led_index_ofs_ > 0
    /\ Reals(scsi_devices) # {}
    /\ Len(calls) > Cardinality(Reals(scsi_devices))
    /\ calls[Len(calls)].state = FALSE

\* C19: right after enumeration the Set calls made are all Set(blue, _, true),
\* as many as the map has real records, each for the key of a real record,
\* and in strictly ascending order of their keys
C19_EnumerationEvents ==
    pc = "udev_monitor_enable_receiving" =>
        /\ Len(calls) = Cardinality(Reals(scsi_devices))
        /\ \A i \in 1..Len(calls) :
              /\ calls[i].state = TRUE
              /\ calls[i].color = LED_BLUE
              /\ calls[i].idx + 1 \in Reals(scsi_devices)
        /\ \A i, j \in 1..Len(calls) :
              i < j => calls[i].idx < calls[j].idx

C19_Witness ==
    /\ pc = "udev_monitor_enable_receiving"
    /\ Len(calls) >= 2
    /\ \E i, j \in 1..Len(dev_enum) :
          /\ i < j
          /\ dev_enum[i] # Null /\ dev_enum[j] # Null
          /\ getLedIndexForDevice_(Deref(dev_enum[i]), 0)
                > getLedIndexForDevice_(Deref(dev_enum[j]), 0)
          /\ getLedIndexForDevice_(Deref(dev_enum[j]), 0) > 0
    /\ \E i \in 1..Len(dev_enum) :
          dev_enum[i] # Null /\ getLedIndexForDevice_(Deref(dev_enum[i]), 0) <= 0

\* holes of the map below every real record
LeadingHoles ==
    { k \in Holes(scsi_devices) : \A r \in Reals(scsi_devices) : k < r }

\* C20 as stated: the offset is 0 until enumeration, and one enumeration
\* pass makes exactly one assignment to it
C20_WrittenOnce ==
    /\ ~Enumerated => led_index_ofs_ = 0
    /\ Enumerated => ofs_writes = 1

\* C20 amended: the offset is 0 and unwritten until enumeration, and one
\* enumeration pass assigns it once per hole below the first real record:
\* not at all if there is none
C20_WrittenPerLeadingHole ==
    /\ ~Enumerated => led_index_ofs_ = 0 /\ ofs_writes = 0
    /\ Enumerated => ofs_writes = Cardinality(LeadingHoles)

C20_Witness ==
    /\ pc = "udev_monitor_enable_receiving"
    /\ ofs_writes = 2
    /\ led_index_ofs_ = 2
    /\ Reals(scsi_devices) # {}

====
